---------------------------- MODULE Spec2Model ----------------------------
(***************************************************************************)
(* Model of the UDP ingestion server of akumulid (src/akumulid/main.cpp,   *)
(* class UdpServer): start(), stop(), sendByteToLocalhost() and worker().  *)
(* Threads are interleaved at the statements that touch state shared       *)
(* between threads (the barriers, stop_, sockfd_, the kernel sockets); the *)
(* statements between two such accesses belong to the step of the first.   *)
(* The field sockfd_ is a plain int written by every worker, so each       *)
(* access to it is a step of its own.  The atomic stop_ is one cell that   *)
(* every thread reads and writes in the order of the steps.                *)
(*                                                                         *)
(* The daemon's way to the server (ConfigFile::get_udp_server, the UDP     *)
(* factory, cmd_run_server) is modelled from the same file.  The query     *)
(* pipeline (QueryProcessor, QueryResultsPooler) is declared in            *)
(* src/unnamed/part_000; its fields are taken from the declarations and    *)
(* the behaviour of its operations from sections 4.4 and 7 of the          *)
(* specification.                                                          *)
(***************************************************************************)
EXTENDS Integers, Naturals, Sequences, FiniteSets, TLC

(* ------------------------------- bounds -------------------------------- *)
MaxWorkers   == 2   \* nworkers_ ranges over 1..MaxWorkers
MaxDatagrams == 2   \* datagrams the client sends
MaxStopCalls == 2   \* stop() invocations of the re-entrant specifications
NPACKETS     == 2   \* messages one recvmmsg call can return
MaxProtocols == 2   \* endpoints of a ServerSettings
MaxQueries   == 2   \* queries the HTTP server passes to the QueryProcessor
MaxQueryText == 2   \* bytes of query text appended to one pooler
MaxSamples   == 3   \* samples a cursor produces
MaxRdbuf     == 2   \* readbufsize: samples the read buffer of a pooler holds
MaxBuf       == 3   \* size of the buffer given to read_some
MaxCompletes == 2   \* read_some calls made after the stream is complete
MaxStrLen    == 3   \* characters of a string handed to get_memory_size
MaxDispatchers == 3 \* dispatchers created from one TreeRegistry
MaxNames     == 2   \* series names the dispatchers are asked about

Workers     == 1..MaxWorkers
StopCallers == 1..MaxStopCalls
ClientIds   == 1..MaxDatagrams
WakeId(c)   == MaxDatagrams + c          \* the byte sent by stop() call c
DgIds       == 1..(MaxDatagrams + MaxStopCalls)
Fds         == Workers                   \* the descriptor created by worker w
NoFd        == 0 - 1
ClientKinds == {"valid", "malformed", "late"}

VARIABLES
    settings,        \* the ServerSettings handed to the factory
    daemon,          \* position of cmd_run_server
    nworkers_,       \* UdpServer::nworkers_
    ncalls,          \* how many times the signal side invokes stop()
    stop_,           \* UdpServer::stop_
    sockfd_,         \* UdpServer::sockfd_
    start_barrier_,  \* UdpServer::start_barrier_
    stop_barrier_,   \* UdpServer::stop_barrier_
    mainPc,          \* position of the thread running start()
    spawned,         \* loop counter i of start()
    handler,         \* TRUE once stop is registered with the signal handler
    pc,              \* position of every worker thread
    stopPc,          \* position of every stop() call
    afterStart,      \* stop() call c was invoked after start() had returned
    rfd,             \* descriptor argument of the worker's pending receive
    sock,            \* kernel state of every descriptor
    queue,           \* receive queue of every descriptor
    failed,          \* the call whose failure made the worker throw
    sent,            \* client datagrams sent so far
    batch,           \* iobuf->msgs of every worker: the received datagrams
    nbatch,          \* receive calls that returned, per worker
    made,            \* parsers constructed so far, per worker
    iobuf,           \* iobuf->pps and iobuf->bps of every worker
    dg,              \* history of every datagram
    arrivals,        \* calls of stop_barrier_.wait() made by every worker
    closed,          \* the parsers every worker has closed
    command,         \* the command given on the command line
    files,           \* the paths that exist in the file system
    conf,            \* the configuration file
    cmdPc,           \* position of main
    wal_config,      \* the WALSettings get_wal_settings returned
    params,          \* the aku_FineTuneParams the connection is opened with
    printed,         \* the messages written to the terminal
    engine,          \* the calls made into the storage engine
    exit_code,       \* the argument of exit()
    strsize,         \* argument of a get_memory_size call
    memsize,         \* what the get_memory_size call came to
    ndispatchers,    \* dispatchers created from the TreeRegistry
    global_,         \* series ids of the TreeRegistry, by name
    local_,          \* series ids cached by every dispatcher, by name
    given,           \* what init_series_id has answered, by dispatcher, name
    con_,           \* QueryProcessor::con_: what the weak reference points at
    sessions,        \* sessions the QueryProcessor has created
    pstate,          \* state of the QueryResultsPooler
    query_text_,     \* QueryResultsPooler::query_text_ (its length)
    session_,        \* QueryResultsPooler::session_
    cursor_,         \* QueryResultsPooler::cursor_
    formatter_,      \* QueryResultsPooler::formatter_
    rdbuf_,          \* QueryResultsPooler::rdbuf_
    rdbuf_pos_,      \* QueryResultsPooler::rdbuf_pos_
    rdbuf_top_,      \* QueryResultsPooler::rdbuf_top_
    endpoint_,       \* QueryResultsPooler::endpoint_
    error_produced_, \* QueryResultsPooler::error_produced_
    ret,             \* outcome of the last call into the query pipeline
    out,             \* the bytes read_some has returned so far
    hist             \* what has happened to the pooler so far

\* The command line, the files and what main has done with them.
cmdVars == <<command, files, conf, cmdPc, wal_config, params, printed,
             engine, exit_code, strsize, memsize>>

\* The TreeRegistry and its dispatchers.
regVars == <<ndispatchers, global_, local_, given>>

udpVars == <<settings, daemon, nworkers_, ncalls, stop_, sockfd_,
             start_barrier_, stop_barrier_, mainPc, spawned, handler, pc,
             stopPc, afterStart, rfd, sock, queue, failed, sent, batch,
             nbatch, made, iobuf, dg, arrivals, closed, cmdVars,
             regVars>>

qryVars == <<con_, sessions, pstate, query_text_, session_, cursor_,
             formatter_, rdbuf_, rdbuf_pos_, rdbuf_top_, endpoint_,
             error_produced_, ret, out, hist>>

vars == <<udpVars, qryVars>>

\* What no thread of a constructed UDP server changes.
srvVars  == <<settings, daemon, nworkers_, ncalls, qryVars, cmdVars,
              regVars>>
mainVars == <<mainPc, spawned, handler>>
stopVars == <<stopPc, afterStart>>
netVars  == <<sock, queue>>
cliVars  == <<sent>>
parseVars == <<batch, nbatch, made, iobuf, dg, arrivals, closed>>

(* ------------------------------ barrier -------------------------------- *)
\* boost::barrier: the arrival that brings the count to zero resets the
\* count and releases every thread blocked in wait(); every other arrival
\* blocks.  A released thread is shown at the statement after its wait().
NewBarrier(n) == [threshold |-> n, count |-> n]

Completes(b) == b.count = 1

Arrive(b) ==
    IF Completes(b)
    THEN [b EXCEPT !.count = b.threshold]
    ELSE [b EXCEPT !.count = b.count - 1]

\* The barriers sized for the workers alone.
BarrierSizeWorkersOnly(n) == n

\* lines 866-867: both barriers are sized static_cast<u32>(nworkers + 1),
\* which is nworkers + 1 for every nworkers from -1 on.
BarrierSize(n) == n + 1

(* ------------------------------ kernel --------------------------------- *)
NewSock == [state |-> "none", reuse |-> FALSE, bound |-> FALSE]

IsOpen(f) == f \in Fds /\ sock[f].state = "open"

Bound == {f \in Fds : sock[f].state = "open" /\ sock[f].bound}

\* bind(2) on a UDP socket: fails on a bad descriptor, on a socket that is
\* already bound, and when the port is held by a socket unless both sockets
\* have SO_REUSEPORT.
BindOk(f) ==
    /\ IsOpen(f)
    /\ ~sock[f].bound
    /\ \A g \in Bound : sock[g].reuse /\ sock[f].reuse

\* The kernel hands a datagram for the port to one of the sockets bound to
\* it; with no socket bound the datagram is dropped.
Deliver(d, q) ==
    IF Bound = {} THEN {q}
    ELSE {[q EXCEPT ![f] = Append(q[f], d)] : f \in Bound}

NewDg == [by |-> 0, batch |-> 0, pos |-> 0, afterStop |-> FALSE,
          handed |-> 0, parser |-> 0, order |-> 0, kind |-> "none",
          result |-> "none"]

NewIOBuf == [pps |-> 0, bps |-> 0]

\* RESPProtocolParser::parse_next on one datagram: a well-formed datagram
\* the engine accepts is written whole; a malformed one raises StreamError
\* and one the engine rejects (late write) raises DatabaseError, both after
\* the samples in front of the offending one were written.
ParseNext(k) ==
    CASE k = "valid"     -> "ok"
      [] k = "malformed" -> "StreamError"
      [] k = "late"      -> "DatabaseError"
      [] OTHER           -> "StreamError"

(* --------------------------- query pipeline ---------------------------- *)
Endpoints == {"query", "suggest", "search"}

Errors == {"EBAD_ARG", "EIO"}

NoCursor == [open |-> FALSE, pos |-> 0, done |-> FALSE, status |-> "ok"]

\* n is the size of the buffer a read_some call was given.
NoRet == [op |-> "none", status |-> "ok", n |-> 0, bytes |-> 0,
          complete |-> FALSE, error |-> "none"]

NoHist == [opened |-> 0, errors |-> 0, completes |-> 0, first |-> "none"]

\* No QueryResultsPooler has been made.
NoPooler ==
    /\ sessions = 0
    /\ pstate = "none"
    /\ query_text_ = 0
    /\ session_ = 0
    /\ cursor_ = NoCursor
    /\ formatter_ = "none"
    /\ rdbuf_ = <<>>
    /\ rdbuf_pos_ = 0
    /\ rdbuf_top_ = 0
    /\ endpoint_ = "none"
    /\ error_produced_ = FALSE
    /\ ret = NoRet
    /\ out = <<>>
    /\ hist = NoHist

\* cmd_run_server line 551: the QueryProcessor is made on the open
\* connection, and no query has come in.
IdleQuery == con_ = "alive" /\ NoPooler

(* ---------------------------- 64-bit sizes ----------------------------- *)
\* A u64 is kept in three limbs, a * 2^40 + b * 2^20 + c with a < 2^24 and
\* b, c < 2^20, so that every intermediate value stays within the integers
\* of the model checker.  Arithmetic on the limbs is arithmetic modulo 2^64.
U64(a, b, c) == [a |-> a, b |-> b, c |-> c]

Zero == U64(0, 0, 0)

\* line 256: static_cast<int>(bytes) keeps the low 32 bits of the u64 and
\* reads them as a signed number.
ToInt(x) ==
    LET hi == x.b % 2^12
    IN IF hi < 2^11 THEN hi * 2^20 + x.c ELSE (hi - 2^12) * 2^20 + x.c

(* ----------------------------- size parser ----------------------------- *)
\* A string is a sequence of characters.
Digits == <<"0", "1", "2", "3", "4", "5", "6", "7", "8", "9">>

IsDigit(ch) == \E i \in 1..10 : Digits[i] = ch

DigitValue(ch) == (CHOOSE i \in 1..10 : Digits[i] = ch) - 1

\* The outcome of a conversion: ok is FALSE for bad_lexical_cast.
BadCast == [ok |-> FALSE, v |-> Zero]

\* The digits of s from position i on, read onto the value acc.  A value
\* that does not fit 64 bits is a bad_lexical_cast.
RECURSIVE Decimal(_, _, _)
Decimal(s, i, acc) ==
    IF i > Len(s) THEN [ok |-> TRUE, v |-> acc]
    ELSE IF ~IsDigit(s[i]) THEN BadCast
    ELSE LET c1 == acc.c * 10 + DigitValue(s[i])
             b1 == acc.b * 10 + c1 \div 2^20
             a1 == acc.a * 10 + b1 \div 2^20
         IN IF a1 >= 2^24 THEN BadCast
            ELSE Decimal(s, i + 1, U64(a1, b1 % 2^20, c1 % 2^20))

\* lines 205 and 230, boost::lexical_cast<u64>: an optional sign and one or
\* more decimal digits, nothing in front or behind; with a minus sign the
\* result is 0 - n in u64.
lexical_cast(s) ==
    IF s = <<>> THEN BadCast
    ELSE LET first == IF s[1] \in {"+", "-"} THEN 2 ELSE 1
             r     == Decimal(s, first, Zero)
             \* 0 - x in u64
             Negate(x) ==
                 LET bc == IF x.c = 0 THEN 0 ELSE 1
                     bb == IF x.b + bc = 0 THEN 0 ELSE 1
                 IN U64((2^24 - x.a - bb) % 2^24,
                        (2^20 - x.b - bc) % 2^20,
                        (2^20 - x.c) % 2^20)
         IN IF first > Len(s) THEN BadCast
            ELSE IF r.ok /\ s[1] = "-"
                 THEN [ok |-> TRUE, v |-> Negate(r.v)]
                 ELSE r

\* What a get_memory_size call comes to.
NotParsed   == [kind |-> "none", v |-> Zero]
Value(v)    == [kind |-> "value", v |-> v]
DecodeError == [kind |-> "decode_error", v |-> Zero]

\* lines 216 and 220: std::string::back() on an empty string is undefined:
\* the byte in front of the buffer is read, which an unchecked build
\* compares with 'B' or with 'G' and 'M', and a checked build aborts on.
Undefined == {DecodeError, [kind |-> "abort", v |-> Zero]}

\* lines 222-228: the binary logarithm of mul, 0 where the symbol is none of
\* G, g, M, m and throw_decode_error is called.
Multiplier(symbol) ==
    IF symbol \in {"G", "g"} THEN 30
    ELSE IF symbol \in {"M", "m"} THEN 20
    ELSE 0

\* line 234: result *= mul, in u64, for mul = 2^e
Times(x, e) ==
    LET Shl20(y) == U64((y.a % 16) * 2^20 + y.b, y.c, 0)
        Shl10(y) == U64((y.a % 2^14) * 2^10 + y.b \div 2^10,
                        (y.b % 2^10) * 2^10 + y.c \div 2^10,
                        (y.c % 2^10) * 2^10)
    IN IF e = 30 THEN Shl10(Shl20(x)) ELSE IF e = 20 THEN Shl20(x) ELSE x

\* lines 202-238, ConfigFile::get_memory_size: the outcomes of the call.
get_memory_size(s) ==
    LET r == lexical_cast(s)
    IN IF r.ok THEN {Value(r.v)}
       ELSE IF s = <<>> THEN Undefined
       ELSE IF s[Len(s)] \notin {"B", "b"} THEN {DecodeError}
       ELSE IF Len(s) = 1 THEN Undefined
       ELSE LET symbol == s[Len(s) - 1]
                tmp    == SubSeq(s, 1, Len(s) - 2)
                t      == lexical_cast(tmp)
            IN IF Multiplier(symbol) = 0 THEN {DecodeError}
               ELSE IF ~t.ok THEN {DecodeError}
               ELSE {Value(Times(t.v, Multiplier(symbol)))}

\* The strings handed to the size parser.
Strings ==
    LET Chars == {"0", "1", "4", "G", "g", "M", "m", "B", "b", "X", "-"}
    IN UNION {[1..n -> Chars] : n \in 0..MaxStrLen}

(* ------------------------- files, configuration ------------------------ *)
\* Every path is taken to exist.
AlwaysExists(path) == TRUE

\* boost::filesystem::exists(path): main looks at two paths, the manifest
\* "db.akumuli" of the database and the directory "wal" WAL.path names.
exists(path) == path \in files

\* The configuration files: with or without a [WAL] section, whose path is
\* the directory "wal", and with a top-level volume_size.
Confs ==
    LET WalNvolumes == {0 - 1, 0, 1, 2, 1000, 1001}
        WalSizes ==
            { <<"0">>,
              <<"1", "0", "4", "8", "5", "7", "5">>,
              <<"1", "M", "B">>,
              <<"2", "5", "6", "M", "B">>,
              <<"1", "G", "B">>,
              <<"1", "0", "2", "5", "M", "B">>,
              <<"2", "G", "B">>,
              <<"4", "G", "B">>,
              <<"4", "0", "9", "7", "M", "B">>,
              <<"1", "X", "B">> }
        VolumeSizes == { <<"4", "G", "B">>, <<"4", "X", "B">> }
    IN [WAL : BOOLEAN, WAL_nvolumes : WalNvolumes,
        WAL_volume_size : WalSizes, volume_size : VolumeSizes]

\* The file ConfigFile::init_config writes with --disable-wal, lines 39-96.
DefaultConf ==
    [WAL |-> FALSE, WAL_nvolumes |-> 0, WAL_volume_size |-> <<"0">>,
     volume_size |-> <<"4", "G", "B">>]

\* WALSettings settings = {}
NoWal == [path |-> "", nvolumes |-> 0, volume_size_bytes |-> 0]

\* lines 245-262, ConfigFile::get_wal_settings: the outcomes of the call;
\* thrown is TRUE where an exception leaves it.
get_wal_settings(c) ==
    IF ~c.WAL THEN {[thrown |-> FALSE, settings |-> NoWal]}
    ELSE IF ~exists("wal") THEN {[thrown |-> TRUE, settings |-> NoWal]}
    ELSE {IF o.kind = "value"
          THEN [thrown |-> FALSE,
                settings |-> [path |-> "wal",
                              nvolumes |-> c.WAL_nvolumes,
                              volume_size_bytes |-> ToInt(o.v)]]
          ELSE [thrown |-> TRUE, settings |-> NoWal]
            : o \in get_memory_size(c.WAL_volume_size)}

\* aku_FineTuneParams params = {}
NoParams ==
    [input_log_path |-> "", input_log_volume_numb |-> 0,
     input_log_volume_size |-> 0]

\* lines 520-541: the error messages of the checks of the WAL settings.
WalErrors(wc) ==
    (IF wc.nvolumes < 0 \/ wc.nvolumes > 1000 \/ wc.nvolumes = 1
     THEN {"**ERROR** WAL.nvolumes"} ELSE {})
    \cup
    (IF wc.volume_size_bytes < 1048576 \/ wc.volume_size_bytes > 1073741824
     THEN {"**ERROR** WAL.volume_size"} ELSE {})
    \cup
    (IF ~exists(wc.path) THEN {"**ERROR** WAL.path"} ELSE {})

\* line 512: the checks are made on settings that name a path, a number of
\* volumes and a size, none of them empty or zero.
WalChecked(wc) ==
    wc.path # "" /\ wc.nvolumes # 0 /\ wc.volume_size_bytes # 0

\* lines 511-548: the parameters the connection is opened with.
WalParams(wc) ==
    IF WalChecked(wc) /\ WalErrors(wc) = {}
    THEN [input_log_path |-> wc.path,
          input_log_volume_numb |-> wc.nvolumes,
          input_log_volume_size |-> wc.volume_size_bytes]
    ELSE NoParams

EXIT_SUCCESS == 0
EXIT_FAILURE == 1
NoExit == 0 - 1

\* main has come to the servers of cmd_run_server, line 553, on a database
\* that exists and a configuration without a [WAL] section.
AtServers ==
    /\ command = "run"
    /\ files = {"db.akumuli"}
    /\ conf = DefaultConf
    /\ cmdPc = "servers"
    /\ wal_config = NoWal
    /\ params = NoParams
    /\ printed = {}
    /\ engine = {}
    /\ exit_code = NoExit
    /\ strsize = <<>>
    /\ memsize = NotParsed

(* ----------------------------- TreeRegistry ---------------------------- *)
Dispatchers == 1..MaxDispatchers

Names == 1..MaxNames

NotGiven == [status |-> "none", paramid |-> 0, from |-> "none"]

\* std::make_shared<TreeRegistry>(std::move(meta)) on an empty metadata
\* storage: no series is known and no dispatcher has been created.
NoRegistry ==
    /\ ndispatchers = 0
    /\ global_ = [n \in Names |-> 0]
    /\ local_ = [d \in Dispatchers |-> [n \in Names |-> 0]]
    /\ given = [d \in Dispatchers |-> [n \in Names |-> NotGiven]]

(* ------------------------------ settings ------------------------------- *)
\* ServerSettings: the number of (protocol, endpoint) pairs and nworkers.
\* ConfigFile::get_udp_server, lines 283-300: one endpoint, and nworkers is
\* the value of UDP.pool_size as it stands in the file.
get_udp_server(pool_size) == [protocols |-> 1, nworkers |-> pool_size]

\* The pool sizes a configuration file gives: 0 stands for auto.
PoolSizes == 0..MaxWorkers

\* The settings a caller of the factory can hand over: nworkers from -1,
\* which stands for auto, and any number of endpoints.
AnySettings ==
    [protocols : 0..MaxProtocols, nworkers : (0 - 1)..MaxWorkers]

(* ------------------------------- Init ---------------------------------- *)
\* lines 864-874: the server as its constructor leaves it, made by the
\* factory from settings s.
Constructed(s, calls) ==
    /\ settings = s
    /\ daemon = "run"
    /\ nworkers_ = s.nworkers
    /\ ncalls = calls
    /\ stop_ = 0
    /\ sockfd_ = NoFd
    /\ start_barrier_ = NewBarrier(BarrierSize(nworkers_))
    /\ stop_barrier_ = NewBarrier(BarrierSize(nworkers_))
    /\ mainPc = "add_handler"
    /\ spawned = 0
    /\ handler = FALSE
    /\ pc = [w \in Workers |-> "none"]
    /\ stopPc = [c \in StopCallers |-> "idle"]
    /\ afterStart = [c \in StopCallers |-> FALSE]
    /\ rfd = [w \in Workers |-> NoFd]
    /\ sock = [f \in Fds |-> NewSock]
    /\ queue = [f \in Fds |-> <<>>]
    /\ failed = [w \in Workers |-> "none"]
    /\ sent = 0
    /\ batch = [w \in Workers |-> <<>>]
    /\ nbatch = [w \in Workers |-> 0]
    /\ made = [w \in Workers |-> 0]
    /\ iobuf = [w \in Workers |-> NewIOBuf]
    /\ dg = [d \in DgIds |-> NewDg]
    /\ arrivals = [w \in Workers |-> 0]
    /\ closed = [w \in Workers |-> {}]
    /\ IdleQuery
    /\ AtServers
    /\ NoRegistry

\* The server of a [UDP] section with a pool of 1..MaxWorkers workers.
InitWith(calls) ==
    \E p \in 1..MaxWorkers : Constructed(get_udp_server(p), calls)

\* cmd_run_server starts the server once and the signal handler invokes
\* the registered stop once.
Init == InitWith(1)

(* --------------------------- UdpServer::start -------------------------- *)
\* line 878: sig->add_handler(boost::bind(&UdpServer::stop, self), id)
StartAddHandler ==
    /\ mainPc = "add_handler"
    /\ handler' = TRUE
    /\ mainPc' = "spawn"
    /\ UNCHANGED <<srvVars, rfd, stop_, sockfd_, start_barrier_, stop_barrier_,
                   spawned, pc, stopVars, netVars, failed, cliVars,
                   parseVars>>

\* lines 881-885: one iteration of the loop that creates the workers
StartSpawn ==
    /\ mainPc = "spawn"
    /\ spawned < nworkers_
    /\ pc' = [pc EXCEPT ![spawned + 1] = "start_wait"]
    /\ spawned' = spawned + 1
    /\ UNCHANGED <<srvVars, rfd, stop_, sockfd_, start_barrier_, stop_barrier_,
                   mainPc, handler, stopVars, netVars, failed,
                   cliVars, parseVars>>

\* The workers that leave start_barrier_.wait() when it completes.
StartReleased(me) ==
    [v \in Workers |-> IF v = me \/ pc[v] = "start_blocked"
                       THEN "socket" ELSE pc[v]]

\* line 886: start_barrier_.wait(), after which start() returns
StartWait ==
    /\ mainPc = "spawn"
    /\ spawned = nworkers_
    /\ start_barrier_' = Arrive(start_barrier_)
    /\ IF Completes(start_barrier_)
       THEN mainPc' = "returned" /\ pc' = StartReleased(0)
       ELSE mainPc' = "blocked" /\ UNCHANGED pc
    /\ UNCHANGED <<srvVars, rfd, stop_, sockfd_, stop_barrier_, spawned, handler,
                   stopVars, netVars, failed, cliVars, parseVars>>

(* -------------------------- UdpServer::worker -------------------------- *)
\* line 937: start_barrier_.wait() is the first statement of the thread.
WorkerStartWait(w) ==
    /\ pc[w] = "start_wait"
    /\ start_barrier_' = Arrive(start_barrier_)
    /\ IF Completes(start_barrier_)
       THEN /\ pc' = StartReleased(w)
            /\ mainPc' = IF mainPc = "blocked" THEN "returned" ELSE mainPc
       ELSE /\ pc' = [pc EXCEPT ![w] = "start_blocked"]
            /\ UNCHANGED mainPc
    /\ UNCHANGED <<srvVars, rfd, stop_, sockfd_, stop_barrier_, spawned, handler,
                   stopVars, netVars, failed, cliVars, parseVars>>

\* The exception leaves the thread function and the thread is over.
ThrowUncaught(w, call) ==
    /\ failed' = [failed EXCEPT ![w] = call]
    /\ pc' = [pc EXCEPT ![w] = "done"]

\* The exception leaves the try block; catch(...) at line 1030 logs it and
\* the worker goes on to stop_barrier_.wait().
Throw(w, call) ==
    /\ failed' = [failed EXCEPT ![w] = call]
    /\ pc' = [pc EXCEPT ![w] = "stop_wait"]

\* line 944: sockfd_ = socket(AF_INET, SOCK_DGRAM, 0)
WorkerSocket(w) ==
    /\ pc[w] = "socket"
    /\ \/ /\ sock' = [sock EXCEPT ![w].state = "open"]
          /\ sockfd_' = w
       \/ /\ sockfd_' = NoFd
          /\ UNCHANGED sock
    /\ pc' = [pc EXCEPT ![w] = "check_socket"]
    /\ UNCHANGED <<srvVars, rfd, stop_, start_barrier_, stop_barrier_, mainVars,
                   stopVars, queue, failed, cliVars, parseVars>>

\* line 945: if (sockfd_ == -1) throw
WorkerCheckSocket(w) ==
    /\ pc[w] = "check_socket"
    /\ IF sockfd_ = NoFd
       THEN Throw(w, "socket")
       ELSE pc' = [pc EXCEPT ![w] = "setsockopt"] /\ UNCHANGED failed
    /\ UNCHANGED <<srvVars, rfd, stop_, sockfd_, start_barrier_, stop_barrier_,
                   mainVars, stopVars, netVars, cliVars, parseVars>>

\* line 955: setsockopt(sockfd_, SOL_SOCKET, SO_REUSEPORT, ...)
WorkerSetsockopt(w) ==
    /\ pc[w] = "setsockopt"
    /\ \/ /\ IsOpen(sockfd_)
          /\ sock' = [sock EXCEPT ![sockfd_].reuse = TRUE]
          /\ pc' = [pc EXCEPT ![w] = "bind"]
          /\ UNCHANGED failed
       \/ /\ ~IsOpen(sockfd_)
          /\ Throw(w, "setsockopt")
          /\ UNCHANGED sock
       \/ /\ IsOpen(sockfd_)
          /\ Throw(w, "setsockopt")
          /\ UNCHANGED sock
    /\ UNCHANGED <<srvVars, rfd, stop_, sockfd_, start_barrier_, stop_barrier_,
                   mainVars, stopVars, queue, cliVars, parseVars>>

\* line 964: bind(sockfd_, endpoint_.data(), sizeof(sa))
WorkerBind(w) ==
    /\ pc[w] = "bind"
    /\ \/ /\ BindOk(sockfd_)
          /\ sock' = [sock EXCEPT ![sockfd_].bound = TRUE]
          /\ pc' = [pc EXCEPT ![w] = "recv"]
          /\ UNCHANGED failed
       \/ /\ ~BindOk(sockfd_)
          /\ Throw(w, "bind")
          /\ UNCHANGED sock
       \/ /\ BindOk(sockfd_)
          /\ Throw(w, "bind")
          /\ UNCHANGED sock
    /\ UNCHANGED <<srvVars, rfd, stop_, sockfd_, start_barrier_, stop_barrier_,
                   mainVars, stopVars, queue, cliVars, parseVars>>

\* recvmmsg(sockfd_, iobuf->msgs, NPACKETS, MSG_WAITFORONE, nullptr) takes
\* the first messages of the queue, at most NPACKETS of them.
Taken(q) == IF Len(q) < NPACKETS THEN Len(q) ELSE NPACKETS

Dequeue(q, n) == SubSeq(q, n + 1, Len(q))

\* line 979: the call reads sockfd_ and enters the kernel with the value it
\* read; on a descriptor that is not open it fails at once (EBADF), which
\* throws at line 989.
WorkerRecvCall(w) ==
    /\ pc[w] = "recv"
    /\ IF IsOpen(sockfd_)
       THEN /\ rfd' = [rfd EXCEPT ![w] = sockfd_]
            /\ pc' = [pc EXCEPT ![w] = "recv_blocked"]
            /\ UNCHANGED failed
       ELSE /\ Throw(w, "recv")
            /\ UNCHANGED rfd
    /\ UNCHANGED <<srvVars, stop_, sockfd_, start_barrier_, stop_barrier_,
                   mainVars, stopVars, netVars, cliVars, parseVars>>

\* lines 979-980: the pending call returns with the first messages of the
\* queue of its descriptor; it blocks while the queue is empty, and for
\* ever once the descriptor has been closed under it.
WorkerRecv(w) ==
    /\ pc[w] = "recv_blocked"
    /\ IsOpen(rfd[w])
    /\ queue[rfd[w]] # <<>>
    /\ LET q   == queue[rfd[w]]
           n   == Taken(q)
           got == SubSeq(q, 1, n)
       IN /\ queue' = [queue EXCEPT ![rfd[w]] = Dequeue(q, n)]
          /\ batch' = [batch EXCEPT ![w] = got]
          /\ nbatch' = [nbatch EXCEPT ![w] = nbatch[w] + 1]
          /\ dg' = [d \in DgIds |->
                      IF \E i \in 1..n : got[i] = d
                      THEN [dg[d] EXCEPT
                              !.by = w,
                              !.batch = nbatch[w] + 1,
                              !.pos = CHOOSE i \in 1..n : got[i] = d,
                              !.afterStop = (stop_ # 0)]
                      ELSE dg[d]]
    /\ pc' = [pc EXCEPT ![w] = "check_stop"]
    /\ UNCHANGED <<srvVars, rfd, stop_, sockfd_, start_barrier_, stop_barrier_,
                   mainVars, stopVars, sock, failed, cliVars, made, iobuf,
                   arrivals, closed>>

\* lines 981-984: a signal interrupts the pending call (EINTR) and the loop
\* calls again, reading sockfd_ again.
WorkerRecvInterrupted(w) ==
    /\ pc[w] = "recv_blocked"
    /\ pc' = [pc EXCEPT ![w] = "recv"]
    /\ UNCHANGED <<srvVars, rfd, stop_, sockfd_, start_barrier_, stop_barrier_,
                   mainVars, stopVars, netVars, failed, cliVars, parseVars>>

\* lines 981-989: the kernel fails the pending call on an open socket with
\* an error that is neither EAGAIN nor EINTR.
WorkerRecvFault(w) ==
    /\ pc[w] = "recv_blocked"
    /\ IsOpen(rfd[w])
    /\ Throw(w, "recv")
    /\ UNCHANGED <<srvVars, rfd, stop_, sockfd_, start_barrier_, stop_barrier_,
                   mainVars, stopVars, netVars, cliVars, parseVars>>

\* What the messages of a batch hold: the byte of stop() is no RESP text,
\* and a client's datagram is what the client put into it.  Nothing in the
\* server looks at a payload before parse_next does, so a client's payload
\* is drawn when it is parsed.
Contents(b, k) ==
    [j \in 1..Len(b) |-> IF b[j] > MaxDatagrams THEN "wake" ELSE k[j]]

\* The flag is not looked at after receive.
StopNeverObserved(s) == FALSE

\* line 991: if (stop_.load(...)) break;
StopObserved(s) == s # 0

\* One parser per worker, constructed in front of the loop.
ParserOfWorker(w) == IF made[w] = 0 THEN 1 ELSE made[w]

\* line 997: RESPProtocolParser parser(spout) in the loop body: a new
\* instance for every batch that is parsed.
ParserFor(w) == made[w] + 1

\* The payload of the first message for every i.
MsgAtFirst(b, i) == b[1]

\* line 1012: the payload handed to the parser is iobuf->bufs[i].
MsgAt(b, i) == b[i + 1]

\* The catch clauses log the error and the loop goes on.
NeverBreaks(result) == FALSE

\* lines 1015-1023: both catch clauses leave the for loop.
Breaks(result) == result # "ok"

\* lines 1005-1024: the for loop over the retval messages of the batch,
\* from index i on, with parser p; k[j] is the content of message j and h is
\* the history of the datagrams.
RECURSIVE ParseLoop(_, _, _, _, _)
ParseLoop(b, k, i, p, h) ==
    IF i >= Len(b) THEN h
    ELSE LET d  == MsgAt(b, i)
             r  == ParseNext(k[i + 1])
             h2 == [h EXCEPT ![d].handed = h[d].handed + 1,
                             ![d].parser = p,
                             ![d].order = i + 1,
                             ![d].kind = k[i + 1],
                             ![d].result = r]
         IN IF Breaks(r) THEN h2 ELSE ParseLoop(b, k, i + 1, p, h2)

\* msgs[i].msg_len: the byte of stop() is one byte long, and the clients
\* send datagrams of different lengths.
MsgLen(d) == IF d > MaxDatagrams THEN 1 ELSE d + 1

\* lines 995 and 1007: pps is incremented once for the receive call and
\* bps grows by msg_len in every iteration of the for loop of lines
\* 1005-1024, which runs to the end of the batch or to the first break.
Counted(io, b, k) ==
    LET RECURSIVE Looped(_)
        Looped(i) ==
            IF i >= Len(b) THEN 0
            ELSE IF Breaks(ParseNext(k[i + 1])) THEN 1
            ELSE 1 + Looped(i + 1)
        RECURSIVE SumLen(_)
        SumLen(n) ==
            IF n = 0 THEN 0 ELSE SumLen(n - 1) + MsgLen(MsgAt(b, n - 1))
    IN [pps |-> io.pps + 1, bps |-> io.bps + SumLen(Looped(0))]

\* lines 1025-1027: after a receive call that returned messages the IOBuf
\* is replaced by a new one, and the counters of the old one go with it.
Replaced(io, retval) == IF retval # 0 THEN NewIOBuf ELSE io

\* lines 991-1028: the rest of the loop body after receive returned; the
\* parser made at line 997 is closed at line 1028, after the for loop.
WorkerBatch(w) ==
    /\ pc[w] = "check_stop"
    /\ IF StopObserved(stop_)
       THEN /\ pc' = [pc EXCEPT ![w] = "stop_wait"]
            /\ UNCHANGED <<made, iobuf, dg, batch, closed>>
       ELSE /\ made' = [made EXCEPT ![w] = ParserFor(w)]
            /\ closed' = [closed EXCEPT ![w] = closed[w] \cup {ParserFor(w)}]
            /\ \E k \in [1..Len(batch[w]) -> ClientKinds] :
                  /\ dg' = ParseLoop(batch[w], Contents(batch[w], k), 0,
                                     ParserFor(w), dg)
                  /\ iobuf' = [iobuf EXCEPT ![w] =
                                  Replaced(Counted(iobuf[w], batch[w],
                                                   Contents(batch[w], k)),
                                           Len(batch[w]))]
            /\ batch' = [batch EXCEPT ![w] = <<>>]
            /\ pc' = [pc EXCEPT ![w] = "recv"]
    /\ UNCHANGED <<srvVars, rfd, stop_, sockfd_, start_barrier_, stop_barrier_,
                   mainVars, stopVars, netVars, failed, cliVars,
                   nbatch, arrivals>>

\* The threads that leave stop_barrier_.wait() when it completes.
StopReleasedWorkers(me) ==
    [v \in Workers |-> IF v = me \/ pc[v] = "stop_blocked"
                       THEN "done" ELSE pc[v]]

StopReleasedCalls(me) ==
    [b \in StopCallers |-> IF b = me \/ stopPc[b] = "blocked"
                           THEN "close" ELSE stopPc[b]]

\* line 1034: stop_barrier_.wait(), the last statement of the thread
WorkerStopWait(w) ==
    /\ pc[w] = "stop_wait"
    /\ stop_barrier_' = Arrive(stop_barrier_)
    /\ arrivals' = [arrivals EXCEPT ![w] = arrivals[w] + 1]
    /\ IF Completes(stop_barrier_)
       THEN pc' = StopReleasedWorkers(w) /\ stopPc' = StopReleasedCalls(0)
       ELSE pc' = [pc EXCEPT ![w] = "stop_blocked"] /\ UNCHANGED stopPc
    /\ UNCHANGED <<srvVars, rfd, stop_, sockfd_, start_barrier_, mainVars,
                   afterStart, netVars, failed, cliVars, batch, nbatch,
                   made, iobuf, dg, closed>>

(* --------------------------- UdpServer::stop --------------------------- *)
\* The signal handler invokes the registered callable; line 912 sets stop_.
StopInvoke(c) ==
    /\ handler
    /\ c <= ncalls
    /\ stopPc[c] = "idle"
    /\ \A b \in StopCallers : b < c => stopPc[b] # "idle"
    /\ stop_' = 1
    /\ afterStart' = [afterStart EXCEPT ![c] = (mainPc = "returned")]
    /\ stopPc' = [stopPc EXCEPT ![c] = "send"]
    /\ UNCHANGED <<srvVars, rfd, sockfd_, start_barrier_, stop_barrier_, mainVars,
                   pc, netVars, failed, cliVars, parseVars>>

\* line 913, sendByteToLocalhost: one byte to the server's own endpoint
StopSend(c) ==
    /\ stopPc[c] = "send"
    /\ queue' \in Deliver(WakeId(c), queue)
    /\ stopPc' = [stopPc EXCEPT ![c] = "stop_wait"]
    /\ UNCHANGED <<srvVars, rfd, stop_, sockfd_, start_barrier_, stop_barrier_,
                   mainVars, pc, afterStart, sock, failed, sent,
                   parseVars>>

\* line 914: stop_barrier_.wait()
StopWait(c) ==
    /\ stopPc[c] = "stop_wait"
    /\ stop_barrier_' = Arrive(stop_barrier_)
    /\ IF Completes(stop_barrier_)
       THEN stopPc' = StopReleasedCalls(c) /\ pc' = StopReleasedWorkers(0)
       ELSE stopPc' = [stopPc EXCEPT ![c] = "blocked"] /\ UNCHANGED pc
    /\ UNCHANGED <<srvVars, rfd, stop_, sockfd_, start_barrier_, mainVars,
                   afterStart, netVars, failed, cliVars, parseVars>>

\* line 916: close(sockfd_); the queued datagrams go with the socket.
StopClose(c) ==
    /\ stopPc[c] = "close"
    /\ IF IsOpen(sockfd_)
       THEN /\ sock' = [sock EXCEPT ![sockfd_].state = "closed"]
            /\ queue' = [queue EXCEPT ![sockfd_] = <<>>]
       ELSE UNCHANGED <<sock, queue>>
    /\ stopPc' = [stopPc EXCEPT ![c] = "returned"]
    /\ UNCHANGED <<srvVars, rfd, stop_, sockfd_, start_barrier_, stop_barrier_,
                   mainVars, pc, afterStart, failed, cliVars,
                   parseVars>>

(* ------------------------------- client -------------------------------- *)
\* A client sends one datagram to the server's endpoint.  A datagram sent
\* while no socket is bound to the port is dropped by the kernel and leaves
\* no trace in the server, so the sends start with the first bind.
ClientSend ==
    /\ sent < MaxDatagrams
    /\ Bound # {}
    /\ sent' = sent + 1
    /\ queue' \in Deliver(sent + 1, queue)
    /\ UNCHANGED <<srvVars, rfd, stop_, sockfd_, start_barrier_, stop_barrier_,
                   mainVars, pc, stopVars, sock, failed, parseVars>>

(* ---------------------------- specification ---------------------------- *)
Start == StartAddHandler \/ StartSpawn \/ StartWait

Worker(w) ==
    \/ WorkerStartWait(w)
    \/ WorkerSocket(w) \/ WorkerCheckSocket(w)
    \/ WorkerSetsockopt(w) \/ WorkerBind(w)
    \/ WorkerRecvCall(w) \/ WorkerRecv(w) \/ WorkerBatch(w)
    \/ WorkerStopWait(w)

Stop(c) == StopInvoke(c) \/ StopSend(c) \/ StopWait(c) \/ StopClose(c)

\* The steps the threads of the server take by themselves.
Program ==
    \/ Start
    \/ \E w \in Workers : Worker(w)
    \/ \E c \in StopCallers : Stop(c)

\* The events that come from outside the server.
Environment ==
    \/ ClientSend
    \/ \E w \in Workers : WorkerRecvInterrupted(w) \/ WorkerRecvFault(w)

Next == Program \/ Environment

Spec == Init /\ [][Next]_vars

(* ------------------------------ the daemon ----------------------------- *)
\* Any number of endpoints but none will do.
AtLeastOneProtocol(s) == s.protocols >= 1

\* line 1048: the UDP factory takes settings with exactly one endpoint.
ProtocolsOk(s) == s.protocols = 1

\* boost::barrier::barrier(count) throws when count is 0.
BarrierOk(n) == BarrierSize(n) # 0

\* No UdpServer has been constructed.
NoServer ==
    /\ nworkers_ = 0
    /\ ncalls = 1
    /\ stop_ = 0
    /\ sockfd_ = NoFd
    /\ start_barrier_ = NewBarrier(0)
    /\ stop_barrier_ = NewBarrier(0)
    /\ mainPc = "none"
    /\ spawned = 0
    /\ handler = FALSE
    /\ pc = [w \in Workers |-> "none"]
    /\ stopPc = [c \in StopCallers |-> "idle"]
    /\ afterStart = [c \in StopCallers |-> FALSE]
    /\ rfd = [w \in Workers |-> NoFd]
    /\ sock = [f \in Fds |-> NewSock]
    /\ queue = [f \in Fds |-> <<>>]
    /\ failed = [w \in Workers |-> "none"]
    /\ sent = 0
    /\ batch = [w \in Workers |-> <<>>]
    /\ nbatch = [w \in Workers |-> 0]
    /\ made = [w \in Workers |-> 0]
    /\ iobuf = [w \in Workers |-> NewIOBuf]
    /\ dg = [d \in DgIds |-> NewDg]
    /\ arrivals = [w \in Workers |-> 0]
    /\ closed = [w \in Workers |-> {}]

\* cmd_run_server before line 557, with the settings of the UDP server in
\* hand and no server constructed.
InitDaemon ==
    /\ settings \in AnySettings \cup {get_udp_server(p) : p \in PoolSizes}
    /\ daemon = "create"
    /\ NoServer
    /\ IdleQuery
    /\ AtServers
    /\ NoRegistry

\* line 557, ServerFactory::create: UdpServerBuilder (lines 1045-1053)
\* throws on settings it does not take and constructs the server from
\* settings.nworkers otherwise (lines 864-874); an exception leaves
\* cmd_run_server and main exits with EXIT_FAILURE (lines 830-834).
FactoryCreate ==
    /\ daemon = "create"
    /\ IF ProtocolsOk(settings) /\ BarrierOk(settings.nworkers)
       THEN /\ daemon' = "run"
            /\ nworkers_' = settings.nworkers
            /\ start_barrier_' = NewBarrier(BarrierSize(settings.nworkers))
            /\ stop_barrier_' = NewBarrier(BarrierSize(settings.nworkers))
            /\ mainPc' = "add_handler"
       ELSE /\ daemon' = "exit_failure"
            /\ UNCHANGED <<nworkers_, start_barrier_, stop_barrier_, mainPc>>
    /\ UNCHANGED <<settings, ncalls, stop_, sockfd_, spawned, handler, pc,
                   stopVars, rfd, netVars, failed, cliVars, parseVars,
                   qryVars, cmdVars, regVars>>

NextDaemon == FactoryCreate \/ Next

SpecDaemon == InitDaemon /\ [][NextDaemon]_vars

(* ------------------------ the server in operation ---------------------- *)
\* The states in which start() has returned and every worker has completed
\* its setup on a socket of its own and waits in its first receive call:
\* each worker created, configured and bound its socket and called receive
\* on it before the next one created its own, in the order in which
\* start() spawned them, so sockfd_ holds the descriptor of the last.
InitIngestWith(calls) ==
    /\ \E p \in 1..MaxWorkers : settings = get_udp_server(p)
    /\ daemon = "run"
    /\ nworkers_ = settings.nworkers
    /\ ncalls = calls
    /\ stop_ = 0
    /\ sockfd_ = nworkers_
    /\ start_barrier_ = NewBarrier(BarrierSize(nworkers_))
    /\ stop_barrier_ = NewBarrier(BarrierSize(nworkers_))
    /\ mainPc = "returned"
    /\ spawned = nworkers_
    /\ handler = TRUE
    /\ pc = [w \in Workers |-> IF w <= nworkers_ THEN "recv_blocked"
                                 ELSE "none"]
    /\ stopPc = [c \in StopCallers |-> "idle"]
    /\ afterStart = [c \in StopCallers |-> FALSE]
    /\ rfd = [w \in Workers |-> IF w <= nworkers_ THEN w ELSE NoFd]
    /\ sock = [f \in Fds |-> IF f <= nworkers_
                              THEN [state |-> "open", reuse |-> TRUE,
                                    bound |-> TRUE]
                              ELSE NewSock]
    /\ queue = [f \in Fds |-> <<>>]
    /\ failed = [w \in Workers |-> "none"]
    /\ sent = 0
    /\ batch = [w \in Workers |-> <<>>]
    /\ nbatch = [w \in Workers |-> 0]
    /\ made = [w \in Workers |-> 0]
    /\ iobuf = [w \in Workers |-> NewIOBuf]
    /\ dg = [d \in DgIds |-> NewDg]
    /\ arrivals = [w \in Workers |-> 0]
    /\ closed = [w \in Workers |-> {}]
    /\ IdleQuery
    /\ AtServers
    /\ NoRegistry

InitIngest == InitIngestWith(1)

\* Violated under Spec: the states of InitIngest are states the server
\* reaches from its construction.
NeverInOperation == ~InitIngest

NextIngest ==
    \/ \E w \in Workers :
          \/ WorkerRecvCall(w) \/ WorkerRecv(w) \/ WorkerBatch(w)
          \/ WorkerStopWait(w)
    \/ \E c \in StopCallers : Stop(c)
    \/ Environment

SpecIngest == InitIngest /\ [][NextIngest]_vars

\* The server in operation, with a second invocation of the registered
\* stop.
InitTwoStops == InitIngestWith(2)

SpecTwoStops == InitTwoStops /\ [][NextIngest]_vars

(* --------------------------- QueryProcessor ---------------------------- *)
\* The reference is taken to be good whatever has become of the connection.
AlwaysUpgrades(c) == TRUE

\* con_.lock(): the weak reference can be upgraded while the connection
\* lives.
Upgrade(c) == c = "alive"

Resources == {"stats", "function-names"}

Ret(op, status) == [NoRet EXCEPT !.op = op, !.status = status]

\* QueryProcessor::create(endpoint): a pooler on a session of its own.  The
\* HTTP server has one query in hand at a time: the pooler of the query
\* before has been closed.
QpCreate(e) ==
    /\ session_ = 0
    /\ sessions < MaxQueries
    /\ IF Upgrade(con_)
       THEN /\ sessions' = sessions + 1
            /\ session_' = sessions + 1
            /\ pstate' = "Created"
            /\ endpoint_' = e
            /\ query_text_' = 0
            /\ cursor_' = NoCursor
            /\ formatter_' = "none"
            /\ rdbuf_' = <<>>
            /\ rdbuf_pos_' = 0
            /\ rdbuf_top_' = 0
            /\ error_produced_' = FALSE
            /\ out' = <<>>
            /\ hist' = NoHist
            /\ ret' = Ret("create", "ok")
       ELSE /\ ret' = Ret("create", "ConnectionClosed")
            /\ UNCHANGED <<sessions, session_, pstate, endpoint_,
                           query_text_, cursor_, formatter_, rdbuf_,
                           rdbuf_pos_, rdbuf_top_, error_produced_, out,
                           hist>>
    /\ UNCHANGED <<udpVars, con_>>

\* QueryProcessor::get_all_stats()
QpGetAllStats ==
    /\ ret' = Ret("get_all_stats",
                  IF Upgrade(con_) THEN "ok" ELSE "ConnectionClosed")
    /\ UNCHANGED <<udpVars, con_, sessions, pstate, query_text_, session_,
                   cursor_, formatter_, rdbuf_, rdbuf_pos_, rdbuf_top_,
                   endpoint_, error_produced_, out, hist>>

\* QueryProcessor::get_resource(name)
QpGetResource(name) ==
    /\ ret' = Ret("get_resource",
                  IF Upgrade(con_) THEN "ok" ELSE "ConnectionClosed")
    /\ UNCHANGED <<udpVars, con_, sessions, pstate, query_text_, session_,
                   cursor_, formatter_, rdbuf_, rdbuf_pos_, rdbuf_top_,
                   endpoint_, error_produced_, out, hist>>

\* The connection is torn down: cmd_run_server holds the last owning
\* reference and lets go of it when it returns.
ConnectionTeardown ==
    /\ con_ = "alive"
    /\ con_' = "gone"
    /\ UNCHANGED <<udpVars, sessions, pstate, query_text_, session_, cursor_,
                   formatter_, rdbuf_, rdbuf_pos_, rdbuf_top_, endpoint_,
                   error_produced_, ret, out, hist>>

(* ------------------------- QueryResultsPooler -------------------------- *)
\* The checks that let every call through.
NeverStarted(st) == FALSE

NeverNotStarted(st) == FALSE

\* throw_if_started: AlreadyStarted in every state but Created.
throw_if_started(st) == st # "Created"

\* throw_if_not_started: NotStarted in Created.
throw_if_not_started(st) == st = "Created"

\* The formatted text of sample i: Size(i) bytes, byte k of it is <<i, k>>.
Size(i) == IF i % 2 = 1 THEN 2 ELSE 1

Bytes(i) == [k \in 1..Size(i) |-> <<i, k>>]

\* The full formatted output of a query whose cursor produces n samples.
RECURSIVE Stream(_)
Stream(n) == IF n = 0 THEN <<>> ELSE Stream(n - 1) \o Bytes(n)

Min(a, b) == IF a < b THEN a ELSE b

\* A formatter that writes what fits of the sample.
FormatTruncating(space, i) == SubSeq(Bytes(i), 1, Min(space, Size(i)))

\* OutputFormatter::format(begin, end, sample): the bytes written into the
\* span of space bytes: the whole sample, or nothing when it does not fit.
Format(space, i) == IF Size(i) <= space THEN Bytes(i) ELSE <<>>

\* read_some formats the samples of the read buffer from pos on into what
\* is left of the caller's buffer, until one does not fit.
RECURSIVE FormatLoop(_, _, _, _, _)
FormatLoop(b, pos, top, space, acc) ==
    IF pos = top THEN [pos |-> pos, bytes |-> acc]
    ELSE LET w == Format(space, b[pos + 1])
         IN IF w = <<>> THEN [pos |-> pos, bytes |-> acc]
            ELSE FormatLoop(b, pos + 1, top, space - Len(w), acc \o w)

\* What one read of the cursor can bring: k samples, and then the cursor
\* has more, is at the end of the stream, or has failed.
Pulls(c) ==
    {pl \in [k : 0..Min(MaxRdbuf, MaxSamples - c.pos),
             then : {"more", "done"} \cup Errors] :
        pl.then = "more" => (pl.k > 0 /\ c.pos + pl.k < MaxSamples)}

AfterPull(c, pl) ==
    [c EXCEPT !.pos = c.pos + pl.k,
              !.done = (pl.then = "done"),
              !.status = IF pl.then \in Errors THEN pl.then ELSE "ok"]

Pulled(c, pl) == [j \in 1..pl.k |-> c.pos + j]

\* The error is reported whenever the cursor has failed.
ErrorAlwaysDue(produced) == TRUE

\* The error is reported while error_produced_ is not set.
ErrorDue(produced) == ~produced

\* Complete as soon as the read buffer is drained.
DoneWhenDrained(c) == TRUE

\* cursor_->is_done(): the cursor is at the end of the stream.
IsDone(c) == c.done

\* get_error(): the status of the cursor.
get_error == cursor_.status

\* append(data, size)
PoolerAppend(k) ==
    /\ session_ # 0
    /\ IF throw_if_started(pstate)
       THEN /\ ret' = Ret("append", "AlreadyStarted")
            /\ UNCHANGED query_text_
       ELSE /\ query_text_ + k <= MaxQueryText
            /\ query_text_' = query_text_ + k
            /\ ret' = Ret("append", "ok")
    /\ UNCHANGED <<udpVars, con_, sessions, pstate, session_, cursor_,
                   formatter_, rdbuf_, rdbuf_pos_, rdbuf_top_, endpoint_,
                   error_produced_, out, hist>>

\* start(): the query is parsed and the cursor opened through the session;
\* the cursor can fail on the query at once.
PoolerStart ==
    /\ session_ # 0
    /\ IF throw_if_started(pstate)
       THEN /\ ret' = Ret("start", "AlreadyStarted")
            /\ UNCHANGED <<pstate, cursor_, formatter_, hist>>
       ELSE \E st \in {"ok"} \cup Errors :
               /\ cursor_' = [NoCursor EXCEPT !.open = TRUE, !.status = st]
               /\ formatter_' = endpoint_
               /\ pstate' = IF st = "ok" THEN "Started" ELSE "Errored"
               /\ hist' = [hist EXCEPT !.opened = hist.opened + 1,
                                       !.first = IF st = "ok" THEN "none"
                                                 ELSE st]
               /\ ret' = Ret("start", "ok")
    /\ UNCHANGED <<udpVars, con_, sessions, query_text_, session_, rdbuf_,
                   rdbuf_pos_, rdbuf_top_, endpoint_, error_produced_, out>>

RetRead(n) == [Ret("read_some", "ok") EXCEPT !.n = n]

\* read_some reads the cursor when it finds the read buffer drained and
\* the cursor neither failed nor at its end.
NeedsPull ==
    rdbuf_pos_ = rdbuf_top_ /\ cursor_.status = "ok" /\ ~IsDone(cursor_)

NoPull == [k |-> 0, then |-> "done"]

\* read_some(buf, n) on a started pooler, the cursor bringing pl when it is
\* read.
ReadStarted(n, pl) ==
    LET drained == rdbuf_pos_ = rdbuf_top_
        pulls   == NeedsPull
        c1      == IF pulls THEN AfterPull(cursor_, pl) ELSE cursor_
        b1      == IF pulls THEN Pulled(cursor_, pl) ELSE rdbuf_
        pos1    == IF pulls THEN 0 ELSE rdbuf_pos_
        top1    == IF pulls THEN pl.k ELSE rdbuf_top_
        f       == FormatLoop(b1, pos1, top1, n, <<>>)
        first1  == IF hist.first = "none" /\ c1.status # "ok"
                   THEN c1.status ELSE hist.first
    IN /\ cursor_' = c1
       /\ rdbuf_' = b1
       /\ rdbuf_top_' = top1
       /\ IF pos1 = top1 /\ c1.status # "ok"
          THEN \* nothing left to flush and the cursor has failed
               /\ rdbuf_pos_' = pos1
               /\ out' = out
               /\ pstate' = "Errored"
               /\ IF ErrorDue(error_produced_)
                  THEN /\ error_produced_' = TRUE
                       /\ ret' = [RetRead(n) EXCEPT
                                     !.error = c1.status]
                       /\ hist' = [hist EXCEPT !.first = first1,
                                               !.errors = hist.errors + 1]
                  ELSE /\ error_produced_' = error_produced_
                       /\ ret' = [RetRead(n) EXCEPT
                                     !.complete = TRUE]
                       /\ hist' = [hist EXCEPT
                                     !.completes = hist.completes + 1]
          ELSE IF drained /\ ~pulls
          THEN \* the buffer is drained and the cursor is at its end
               /\ rdbuf_pos_' = pos1
               /\ out' = out
               /\ pstate' = "Closed"
               /\ error_produced_' = error_produced_
               /\ ret' = [RetRead(n) EXCEPT !.complete = TRUE]
               /\ hist' = [hist EXCEPT !.completes = hist.completes + 1]
          ELSE \* whole samples, as many as fit
               /\ rdbuf_pos_' = f.pos
               /\ out' = out \o f.bytes
               /\ pstate' = IF c1.status # "ok" THEN "Errored"
                             ELSE "Draining"
               /\ error_produced_' = error_produced_
               /\ ret' = [RetRead(n) EXCEPT
                             !.bytes = Len(f.bytes)]
               /\ hist' = [hist EXCEPT !.first = first1]

\* read_some(buf, n)
PoolerReadSome(n) ==
    /\ session_ # 0
    /\ hist.completes < MaxCompletes
    /\ IF throw_if_not_started(pstate)
       THEN /\ ret' = Ret("read_some", "NotStarted")
            /\ UNCHANGED <<pstate, cursor_, rdbuf_, rdbuf_pos_, rdbuf_top_,
                           error_produced_, out, hist>>
       ELSE \E pl \in (IF NeedsPull THEN Pulls(cursor_) ELSE {NoPull}) :
               ReadStarted(n, pl)
    /\ UNCHANGED <<udpVars, con_, sessions, query_text_, session_,
                   formatter_, endpoint_>>

\* close(): the cursor and the session are released; a second close finds
\* nothing to release.
PoolerClose ==
    /\ pstate # "none"
    /\ pstate' = "Closed"
    /\ cursor_' = NoCursor
    /\ session_' = 0
    /\ ret' = Ret("close", "ok")
    /\ UNCHANGED <<udpVars, con_, sessions, query_text_, formatter_, rdbuf_,
                   rdbuf_pos_, rdbuf_top_, endpoint_, error_produced_, out,
                   hist>>

Pooler ==
    \/ \E k \in 1..MaxQueryText : PoolerAppend(k)
    \/ PoolerStart
    \/ \E n \in 0..MaxBuf : PoolerReadSome(n)
    \/ PoolerClose

QueryProcessor ==
    \/ \E e \in Endpoints : QpCreate(e)
    \/ QpGetAllStats
    \/ \E name \in Resources : QpGetResource(name)

NextQuery == QueryProcessor \/ Pooler \/ ConnectionTeardown

\* The daemon with its servers started, serving queries.
InitQuery == Constructed(get_udp_server(1), 1)

SpecQuery == InitQuery /\ [][NextQuery]_vars

(* ------------------------------- main ---------------------------------- *)
\* The commands of the command line; "run" stands for no command.
Commands ==
    {"help", "create", "CI", "delete", "debug-dump", "debug-recovery-dump",
     "version", "run"}

\* What main leaves alone.
idleVars ==
    <<settings, daemon, nworkers_, ncalls, stop_, sockfd_, start_barrier_,
      stop_barrier_, mainPc, spawned, handler, pc, stopPc, afterStart, rfd,
      sock, queue, failed, sent, batch, nbatch, made, iobuf, dg, arrivals, closed,
      regVars, sessions, pstate, query_text_, session_, cursor_, formatter_,
      rdbuf_, rdbuf_pos_, rdbuf_top_, endpoint_, error_produced_, ret, out,
      hist, conf, command, strsize, memsize>>

\* The function main called returns: main goes on to its exit(EXIT_SUCCESS).
Returns(msgs, calls) ==
    /\ cmdPc' = "return"
    /\ printed' = printed \cup msgs
    /\ engine' = engine \cup calls
    /\ UNCHANGED exit_code

\* lines 830-840: an exception leaves the try block of main, which prints
\* it and calls exit(EXIT_FAILURE).
Throws(calls) ==
    /\ cmdPc' = "exited"
    /\ printed' = printed \cup {"**FAILURE**"}
    /\ engine' = engine \cup calls
    /\ exit_code' = EXIT_FAILURE

\* lines 732-826: main goes to the function of the command; --help and
\* --version print and call exit(EXIT_SUCCESS).
MainDispatch ==
    /\ cmdPc = "main"
    /\ IF command \in {"help", "version"}
       THEN /\ cmdPc' = "exited"
            /\ exit_code' = EXIT_SUCCESS
       ELSE /\ cmdPc' = command
            /\ UNCHANGED exit_code
    /\ UNCHANGED <<idleVars, files, wal_config, params, printed, engine,
                   con_>>

\* lines 586-598 and 466-492, cmd_create_database and create_db_files: the
\* volume size is read from the configuration, and the database is created
\* unless its manifest exists.
CmdCreateDatabase ==
    /\ cmdPc \in {"create", "CI"}
    /\ \E o \in get_memory_size(conf.volume_size) :
          IF o.kind # "value"
          THEN Throws({}) /\ UNCHANGED files
          ELSE IF ~exists("db.akumuli")
          THEN \/ /\ Returns({"**OK** database created"},
                             {"aku_create_database_ex"})
                  /\ files' = files \cup {"db.akumuli"}
               \/ /\ Throws({"aku_create_database_ex"})
                  /\ UNCHANGED files
          ELSE /\ Returns({"**ERROR** database file already exists"}, {})
               /\ UNCHANGED files
    /\ UNCHANGED <<idleVars, wal_config, params, con_>>

\* lines 600-628, cmd_delete_database
CmdDeleteDatabase ==
    /\ cmdPc = "delete"
    /\ \E ws \in get_wal_settings(conf) :
          IF ws.thrown
          THEN Throws({}) /\ UNCHANGED files
          ELSE IF exists("db.akumuli")
          THEN \/ /\ Returns({"**OK** database deleted"},
                             {"aku_remove_database"})
                  /\ files' = files \ {"db.akumuli"}
               \/ /\ Throws({"aku_remove_database"})
                  /\ UNCHANGED files
          ELSE /\ Returns({"**ERROR** database file doesn't exists"}, {})
               /\ UNCHANGED files
    /\ UNCHANGED <<idleVars, wal_config, params, con_>>

\* lines 630-692, cmd_dump_debug_information and
\* cmd_dump_recovery_debug_information
CmdDump ==
    /\ cmdPc \in {"debug-dump", "debug-recovery-dump"}
    /\ IF exists("db.akumuli")
       THEN LET call == IF cmdPc = "debug-dump"
                        THEN "aku_debug_report_dump"
                        ELSE "aku_debug_recovery_report_dump"
            IN \/ Returns({"**OK** dump generated"}, {call})
               \/ Throws({call})
       ELSE Returns({"**ERROR** database file doesn't exists"}, {})
    /\ UNCHANGED <<idleVars, files, wal_config, params, con_>>

\* lines 499-504 of cmd_run_server: the configuration is read.
RunWalSettings ==
    /\ cmdPc = "run"
    /\ \E ws \in get_wal_settings(conf) :
          IF ws.thrown
          THEN Throws({}) /\ UNCHANGED wal_config
          ELSE /\ wal_config' = ws.settings
               /\ cmdPc' = "run_manifest"
               /\ UNCHANGED <<printed, engine, exit_code>>
    /\ UNCHANGED <<idleVars, files, params, con_>>

\* lines 506-510: without the manifest cmd_run_server prints the error and
\* returns.
RunCheckManifest ==
    /\ cmdPc = "run_manifest"
    /\ IF ~exists("db.akumuli")
       THEN Returns({"**ERROR** database file doesn't exists"}, {})
       ELSE /\ cmdPc' = "run_wal"
            /\ UNCHANGED <<printed, engine, exit_code>>
    /\ UNCHANGED <<idleVars, files, wal_config, params, con_>>

\* lines 511-548: the checks of the WAL settings
RunWalChecks ==
    /\ cmdPc = "run_wal"
    /\ params' = WalParams(wal_config)
    /\ printed' = printed \cup
                     (IF WalChecked(wal_config) THEN WalErrors(wal_config)
                      ELSE {})
    /\ cmdPc' = "run_connect"
    /\ UNCHANGED <<idleVars, files, wal_config, engine, exit_code, con_>>

\* lines 550-551: the connection to the engine is opened with params, which
\* throws when the database can not be opened, and the QueryProcessor is
\* made on it.
RunConnect ==
    /\ cmdPc = "run_connect"
    /\ \/ /\ con_' = "alive"
          /\ cmdPc' = "servers"
          /\ UNCHANGED <<printed, engine, exit_code>>
       \/ /\ Throws({})
          /\ UNCHANGED con_
    /\ UNCHANGED <<idleVars, files, wal_config, params>>

\* lines 553-581: the servers are created and started and run until the
\* signal handler has stopped them; an exception of the factory or of a
\* start() leaves cmd_run_server.
RunServers ==
    /\ cmdPc = "servers"
    /\ \/ Returns({"**OK** server stopped"}, {})
       \/ Throws({})
    /\ UNCHANGED <<idleVars, files, wal_config, params, con_>>

\* lines 788-842: exit(EXIT_SUCCESS) after the function of the command has
\* returned.
MainExit ==
    /\ cmdPc = "return"
    /\ cmdPc' = "exited"
    /\ exit_code' = EXIT_SUCCESS
    /\ UNCHANGED <<idleVars, files, wal_config, params, printed, engine,
                   con_>>

NextMain ==
    \/ MainDispatch
    \/ CmdCreateDatabase \/ CmdDeleteDatabase \/ CmdDump
    \/ RunWalSettings \/ RunCheckManifest \/ RunWalChecks \/ RunConnect
    \/ RunServers
    \/ MainExit

\* main is entered with a command, a configuration file and a file system.
InitMain ==
    /\ settings = get_udp_server(1)
    /\ daemon = "none"
    /\ NoServer
    /\ con_ = "none"
    /\ NoPooler
    /\ NoRegistry
    /\ command \in Commands
    /\ files \in SUBSET {"db.akumuli", "wal"}
    /\ conf \in Confs
    /\ cmdPc = "main"
    /\ wal_config = NoWal
    /\ params = NoParams
    /\ printed = {}
    /\ engine = {}
    /\ exit_code = NoExit
    /\ strsize = <<>>
    /\ memsize = NotParsed

SpecMain == InitMain /\ [][NextMain]_vars

(* --------------------------- the size parser --------------------------- *)
\* A call of ConfigFile::get_memory_size on strsize.
GetMemorySize ==
    /\ memsize = NotParsed
    /\ memsize' \in get_memory_size(strsize)
    /\ UNCHANGED <<settings, daemon, nworkers_, ncalls, stop_, sockfd_,
                   start_barrier_, stop_barrier_, mainPc, spawned, handler,
                   pc, stopPc, afterStart, rfd, sock, queue, failed, sent,
                   batch, nbatch, made, iobuf, dg, arrivals, closed, regVars,
                   qryVars, command, files, conf, cmdPc, wal_config, params,
                   printed, engine, exit_code, strsize>>

InitSize ==
    /\ settings = get_udp_server(1)
    /\ daemon = "none"
    /\ NoServer
    /\ con_ = "none"
    /\ NoPooler
    /\ NoRegistry
    /\ command = "create"
    /\ files = {}
    /\ conf = DefaultConf
    /\ cmdPc = "create"
    /\ wal_config = NoWal
    /\ params = NoParams
    /\ printed = {}
    /\ engine = {}
    /\ exit_code = NoExit
    /\ strsize \in Strings
    /\ memsize = NotParsed

SpecSize == InitSize /\ [][GetMemorySize]_vars

(* ----------------------------- dispatchers ----------------------------- *)
\* No series of the registry is looked at.
NotInGlobal(g, n) == 0

\* The id the registry holds for the name, 0 for none.
GlobalLookup(g, n) == g[n]

\* The registry gives a name it has not seen the next id.
NextId(g) == Cardinality({n \in Names : g[n] # 0}) + 1

\* What the registry and its dispatchers leave alone.
nonRegVars ==
    <<settings, daemon, nworkers_, ncalls, stop_, sockfd_, start_barrier_,
      stop_barrier_, mainPc, spawned, handler, pc, stopPc, afterStart, rfd,
      sock, queue, failed, sent, batch, nbatch, made, iobuf, dg, arrivals, closed,
      cmdVars, qryVars>>

\* registry->create_dispatcher()
CreateDispatcher ==
    /\ ndispatchers < MaxDispatchers
    /\ ndispatchers' = ndispatchers + 1
    /\ UNCHANGED <<global_, local_, given, nonRegVars>>

\* dispatcher->init_series_id(name, end, &sample): the id comes from the
\* cache of the dispatcher, or else from the registry, which assigns one to
\* a name it sees for the first time.
InitSeriesId(d, n) ==
    /\ d <= ndispatchers
    /\ IF local_[d][n] # 0
       THEN /\ given' = [given EXCEPT ![d][n] =
                            [status |-> "AKU_SUCCESS",
                             paramid |-> local_[d][n], from |-> "local"]]
            /\ UNCHANGED <<global_, local_>>
       ELSE LET known == GlobalLookup(global_, n)
                id    == IF known # 0 THEN known ELSE NextId(global_)
            IN /\ global_' = [global_ EXCEPT ![n] = id]
               /\ local_' = [local_ EXCEPT ![d][n] = id]
               /\ given' = [given EXCEPT ![d][n] =
                               [status |-> "AKU_SUCCESS", paramid |-> id,
                                from |-> IF known # 0 THEN "global"
                                         ELSE "new"]]
    /\ UNCHANGED <<ndispatchers, nonRegVars>>

NextRegistry ==
    \/ CreateDispatcher
    \/ \E d \in Dispatchers, n \in Names : InitSeriesId(d, n)

\* A registry on an empty metadata storage, in a process of its own.
InitRegistry ==
    /\ settings = get_udp_server(1)
    /\ daemon = "none"
    /\ NoServer
    /\ con_ = "none"
    /\ NoPooler
    /\ NoRegistry
    /\ AtServers

SpecRegistry == InitRegistry /\ [][NextRegistry]_vars

(* ------------------------------ properties ----------------------------- *)
Live == 1..nworkers_

Arrived(w) == pc[w] \in {"stop_blocked", "done"}

InStop(c) == stopPc[c] \notin {"idle", "returned"}

Ready(w) ==
    sock[w].state = "open" /\ sock[w].reuse /\ sock[w].bound

SetupFailed(w) == failed[w] \in {"socket", "setsockopt", "bind"}

SameBatch(d, e) ==
    dg[d].by # 0 /\ dg[d].by = dg[e].by /\ dg[d].batch = dg[e].batch

\* The worker is done with the batch the datagram came in.
BatchOver(d) ==
    /\ dg[d].by # 0
    /\ \/ nbatch[dg[d].by] > dg[d].batch
       \/ pc[dg[d].by] # "check_stop"

\* C1: once stop() is invoked on a server whose start() has returned, and no
\* further client datagram arrives, stop() returns: a stop() in progress is
\* never left in a state in which no thread of the server can take a step.
C1_StopReturns ==
    \A c \in StopCallers :
        (afterStart[c] /\ InStop(c)) => ENABLED Program

\* C2: when start() has returned, every worker has created its socket, set
\* port-reuse on it and bound it.
C2_StartReturnsWhenReady ==
    mainPc = "returned" => \A w \in Live : Ready(w)

\* C3: a descriptor is closed only by stop() and only when every worker has
\* arrived at the stop barrier, so that no worker is in a receive call or
\* can still enter one.
C3_ClosedAfterAllArrived ==
    \A f \in Fds :
        sock[f].state = "closed" =>
            /\ \E c \in StopCallers : stopPc[c] = "returned"
            /\ \A w \in Live : Arrived(w)

C3_Witness ==
    /\ nworkers_ = 2
    /\ sent > 0
    /\ \E f \in Fds : sock[f].state = "closed"
    /\ \A w \in Live : failed[w] = "none"

\* C4: after stop() has returned no descriptor opened by a worker is open.
C4_NoDescriptorLeak ==
    (\E c \in StopCallers : stopPc[c] = "returned") =>
        \A f \in Fds : sock[f].state # "open"

\* C5: a second call of stop() made after the first has returned, returns
\* without blocking: with the workers gone and the first call returned, the
\* second call has returned or can take its next step.
C5_SecondStopReturns ==
    (/\ \A w \in Live : pc[w] = "done"
     /\ stopPc[1] = "returned"
     /\ stopPc[2] # "idle") =>
        (stopPc[2] = "returned" \/ ENABLED Stop(2))

\* C6: the flag is tested after receive returned and before a parser is
\* made: the byte sent by stop() is never handed to a parser, and neither is
\* a datagram of a batch whose receive returned with the flag set.
C6_NothingParsedAfterStop ==
    \A d \in DgIds :
        (d \notin ClientIds \/ dg[d].afterStop) => dg[d].handed = 0

C6_Witness ==
    \E d \in ClientIds, c \in StopCallers :
        /\ SameBatch(d, WakeId(c))
        /\ dg[d].afterStop
        /\ Arrived(dg[d].by)

C8_ErrorsStayInTheBatch ==
    /\ \A w \in Live :
          pc[w] \in {"stop_wait", "stop_blocked", "done"} =>
              (stop_ = 1 \/ failed[w] # "none")
    /\ \A d, e \in ClientIds :
          (/\ dg[d].handed > 0
           /\ dg[e].handed > 0
           /\ dg[d].by = dg[e].by
           /\ dg[d].parser = dg[e].parser) => dg[d].batch = dg[e].batch

C8_Witness ==
    \E d, e \in ClientIds :
        /\ dg[d].by = dg[e].by
        /\ dg[d].batch < dg[e].batch
        /\ dg[d].result \in {"StreamError", "DatabaseError"}
        /\ dg[e].handed = 1
        /\ dg[d].parser # dg[e].parser

\* C9: a client's datagram is handed to parse_next at most once, by the one
\* worker whose receive returned it, and a valid one is then written whole;
\* every other datagram was lost before parsing.
C9_AtMostOnce ==
    \A d \in ClientIds :
        /\ dg[d].handed <= 1
        /\ dg[d].handed = 1 =>
              /\ dg[d].by \in Live
              /\ dg[d].kind = "valid" => dg[d].result = "ok"

C9_Witness ==
    \E d, e \in ClientIds :
        /\ dg[d].handed = 1 /\ dg[d].result = "ok"
        /\ dg[e].handed = 1 /\ dg[e].result = "ok"
        /\ dg[d].by # dg[e].by
        /\ \E c \in StopCallers : stopPc[c] = "returned"

\* C10: when the setup of a worker has failed, start() does not return
\* normally.
C10_SetupFailureAbortsStart ==
    \A w \in Live : SetupFailed(w) => mainPc # "returned"

\* Auto pool size: pool_size = 0 in the [UDP] section, or nworkers = -1.
IsAuto(s) == s = get_udp_server(0) \/ s.nworkers = 0 - 1

\* C11: with the auto value as the pool size the factory makes a server
\* that runs a positive number of workers.
C11_AutoPoolStartsWorkers ==
    (IsAuto(settings) /\ daemon # "create") =>
        (daemon = "run" /\ nworkers_ >= 1)

\* C12: one socket is created per server and every worker in a receive
\* call is in it on that one descriptor.
C12_OneSharedSocket ==
    /\ Cardinality({f \in Fds : sock[f].state # "none"}) <= 1
    /\ \A v, w \in Live :
          (pc[v] = "recv_blocked" /\ pc[w] = "recv_blocked") =>
              rfd[v] = rfd[w]

\* C13: settings that do not hold exactly one endpoint are fatal: the
\* factory throws, no server is constructed or started, and the daemon
\* exits with a failure code.
C13_BadProtocolCountIsFatal ==
    settings.protocols # 1 =>
        /\ daemon \in {"create", "exit_failure"}
        /\ daemon = "create" => ENABLED FactoryCreate
        /\ mainPc = "none"
        /\ ~handler
        /\ \A w \in Workers : pc[w] = "none"

C13_Witness == settings.protocols = 2 /\ daemon = "exit_failure"

\* A step that is a call of read_some, append, start.
ReadCall == \E n \in 0..MaxBuf : PoolerReadSome(n)

AppendCall == \E k \in 1..MaxQueryText : PoolerAppend(k)

\* What a rejected call must leave alone.
PoolerUnchanged ==
    UNCHANGED <<pstate, query_text_, session_, cursor_, formatter_, rdbuf_,
                rdbuf_pos_, rdbuf_top_, endpoint_, error_produced_, out>>

\* C14: read_some on a pooler that was not started fails with NotStarted,
\* append on a started one with AlreadyStarted, and both leave the pooler
\* as it was.
C14_WrongOrderRejected ==
    [][/\ (pstate = "Created" /\ ReadCall) =>
              (ret'.status = "NotStarted" /\ PoolerUnchanged)
       /\ (pstate \notin {"none", "Created"} /\ AppendCall) =>
              (ret'.status = "AlreadyStarted" /\ PoolerUnchanged)]_vars

C14_Witness ==
    /\ ret.op = "append"
    /\ ret.status = "AlreadyStarted"
    /\ query_text_ > 0
    /\ pstate = "Draining"

\* C15: start() on a started pooler fails with AlreadyStarted; the cursor
\* and the formatter stay as they are and no second cursor is opened.
C15_DoubleStartRejected ==
    [][(pstate \notin {"none", "Created"} /\ PoolerStart) =>
          /\ ret'.status = "AlreadyStarted"
          /\ PoolerUnchanged
          /\ hist'.opened = hist.opened
          /\ hist'.opened = 1]_vars

C15_Witness ==
    /\ ret.op = "start"
    /\ ret.status = "AlreadyStarted"
    /\ hist.opened = 1
    /\ cursor_.pos > 0

C17_CompleteAtMostOnce ==
    hist.first # "none" => hist.completes <= 1

\* C17 as amended: after the cursor has failed, at most one call of
\* read_some delivers the error, no call reports complete before the error
\* was delivered, and every call after it reports complete and no bytes.
C17_ErrorAtMostOnce ==
    hist.first # "none" =>
        /\ hist.errors <= 1
        /\ hist.completes > 0 => error_produced_
        /\ (ret.op = "read_some" /\ ret.status = "ok" /\ error_produced_
             /\ ret.error = "none") => (ret.complete /\ ret.bytes = 0)

C17_Witness ==
    /\ hist.first # "none"
    /\ hist.errors = 1
    /\ hist.completes = 2
    /\ ret.complete

\* C18: read_some returns no more bytes than the buffer holds, and what it
\* has returned so far is the formatted text of the first samples of the
\* stream, each of them whole: a prefix of the full output that ends where
\* a sample ends.
C18_WholeSamplesPrefix ==
    /\ ret.op = "read_some" => ret.bytes <= ret.n
    /\ out = SubSeq(Stream(MaxSamples), 1, Len(out))
    /\ \E k \in 0..MaxSamples : out = Stream(k)

C18_Witness ==
    /\ ret.op = "read_some"
    /\ ret.bytes > 0
    /\ ret.bytes < ret.n
    /\ rdbuf_pos_ < rdbuf_top_
    /\ Len(out) > 2

C20_ConnectionClosed ==
    [][(con_ = "gone" /\ QueryProcessor) =>
          /\ ret'.status = "ConnectionClosed"
          /\ sessions' = sessions
          /\ PoolerUnchanged]_vars

C20_Witness ==
    /\ ret.op = "create"
    /\ ret.status = "ConnectionClosed"
    /\ sessions = 1
    /\ session_ = 0

\* The size WAL.volume_size of the configuration file stands for.
WalSize == CHOOSE o \in get_memory_size(conf.WAL_volume_size) : TRUE

\* The u64 lies in [2^20, 2^30].
InRange(x) == x.a = 0 /\ (x.b \in 1..1023 \/ (x.b = 1024 /\ x.c = 0))

WalMessages ==
    {"**ERROR** WAL.nvolumes", "**ERROR** WAL.volume_size",
     "**ERROR** WAL.path"}

\* The daemon is started on an existing database with a [WAL] section whose
\* volume size can be decoded.
RunWithWal ==
    /\ command = "run"
    /\ "db.akumuli" \in files
    /\ conf.WAL
    /\ WalSize.kind = "value"

WalViolated ==
    \/ "wal" \notin files
    \/ conf.WAL_nvolumes < 0
    \/ conf.WAL_nvolumes = 1
    \/ conf.WAL_nvolumes > 1000
    \/ ~InRange(WalSize.v)

\* C21: a violation of a WAL constraint (WAL.path does not exist,
\* WAL.nvolumes negative, 1 or above 1000, WAL.volume_size outside
\* [1 MiB, 1 GiB]) does not abort the startup: reading the configuration
\* does not end main, and the connection is opened with the WAL disabled
\* after an error message about the WAL has been printed.
C21_WalViolationDisablesWal ==
    [][(RunWithWal /\ WalViolated) =>
          /\ cmdPc = "run" => cmdPc' # "exited"
          /\ cmdPc' = "run_connect" =>
                /\ params'.input_log_path = ""
                /\ printed' \cap WalMessages # {}]_vars

\* C22: the WAL is enabled only if the 64-bit byte count of WAL.volume_size
\* lies in [2^20, 2^30], and every size outside of it, the sizes of 2^31 and
\* above included, disables the WAL with the WAL.volume_size message.
C22_WalSizeRange ==
    (/\ RunWithWal
     /\ "wal" \in files
     /\ conf.WAL_nvolumes \in 2..1000
     /\ cmdPc = "run_connect") =>
        IF InRange(WalSize.v)
        THEN params.input_log_path # ""
        ELSE /\ params.input_log_path = ""
             /\ "**ERROR** WAL.volume_size" \in printed

\* C23: without the manifest the daemon does not start (no connection to
\* the engine is opened, no server is created), and with the manifest the
\* database is not created (no create call is made, the files stay).
C23_ManifestDecides ==
    [][/\ (command = "run" /\ "db.akumuli" \notin files) =>
             /\ con_' = "none"
             /\ cmdPc' \notin {"run_wal", "run_connect", "servers"}
             /\ engine' = {}
       /\ (command \in {"create", "CI"} /\ "db.akumuli" \in files) =>
             /\ engine' = engine
             /\ files' = files]_vars

C23_Witness ==
    /\ command = "run"
    /\ "db.akumuli" \notin files
    /\ "**ERROR** database file doesn't exists" \in printed
    /\ cmdPc = "exited"

FatalMessages ==
    {"**FAILURE**", "**ERROR** database file doesn't exists",
     "**ERROR** database file already exists"}

\* C24: the exit code is 0 on success and non-zero on any error: a run or a
\* delete or a debug dump without the manifest, and a create with the
\* manifest, end with a non-zero code.
C24_ExitCodeTellsErrors ==
    cmdPc = "exited" =>
        (exit_code = EXIT_SUCCESS <=> printed \cap FatalMessages = {})

IsDecimal(s) == Len(s) > 0 /\ \A i \in 1..Len(s) : IsDigit(s[i])

\* The size the string stands for: n, n * 2^30 for n and GB, n * 2^20 for n
\* and MB, the suffix in any letter case, and an error for any other string.
Expected(s) ==
    IF IsDecimal(s) THEN Value(Decimal(s, 1, Zero).v)
    ELSE IF /\ Len(s) >= 3
            /\ s[Len(s)] \in {"B", "b"}
            /\ s[Len(s) - 1] \in {"G", "g", "M", "m"}
            /\ IsDecimal(SubSeq(s, 1, Len(s) - 2))
    THEN Value(Times(Decimal(SubSeq(s, 1, Len(s) - 2), 1, Zero).v,
                     IF s[Len(s) - 1] \in {"G", "g"} THEN 30 ELSE 20))
    ELSE DecodeError

\* C25: the size parser maps a decimal number n to n, n followed by GB to
\* n * 2^30 and n followed by MB to n * 2^20, and reports an error for
\* every other string.
C25_SizeParser ==
    memsize # NotParsed => memsize = Expected(strsize)

\* C26: init_series_id succeeds and gives one name the same id on every
\* dispatcher of the registry, whether the id comes from the registry or
\* from the cache of the dispatcher.
C26_SameIdOnEveryDispatcher ==
    \A d, e \in Dispatchers, n \in Names :
        given[d][n].status # "none" =>
            /\ given[d][n].status = "AKU_SUCCESS"
            /\ given[d][n].paramid # 0
            /\ given[e][n].status # "none" =>
                  given[e][n].paramid = given[d][n].paramid

C26_Witness ==
    \E d, e \in Dispatchers, n \in Names :
        /\ d # e
        /\ given[d][n].from = "new"
        /\ given[e][n].from = "local"
        /\ given[e][n].paramid = given[d][n].paramid

\* C27: the setsockopt, bind and receive calls of a worker are made on the
\* descriptor this worker created.
C27_WorkerUsesItsOwnSocket ==
    [][\A w \in Workers :
          (WorkerSetsockopt(w) \/ WorkerBind(w) \/ WorkerRecvCall(w)) =>
              sockfd_ = w]_vars

\* C28: a worker arrives at the stop barrier exactly once, whatever the way
\* it left its loop (stop flag, failed setup, failed receive); only the
\* workers of the server arrive, and stop() is released after every worker
\* has arrived, those that left early included.
C28_ArrivesExactlyOnce ==
    /\ \A w \in Workers :
          /\ arrivals[w] <= 1
          /\ w \notin Live => arrivals[w] = 0
          /\ pc[w] \in {"stop_blocked", "done"} => arrivals[w] = 1
          /\ failed[w] # "none" =>
                pc[w] \in {"stop_wait", "stop_blocked", "done"}
    /\ (\E c \in StopCallers : stopPc[c] \in {"close", "returned"}) =>
          \A w \in Live : arrivals[w] = 1

C28_Witness ==
    /\ nworkers_ = 2
    /\ \E w, v \in Live :
          /\ SetupFailed(w)
          /\ failed[v] = "none"
          /\ arrivals[w] = 1
          /\ arrivals[v] = 1
    /\ \E c \in StopCallers : stopPc[c] = "returned"

\* The byte stop() call c sent was dropped: it is in no queue, no receive
\* call returned it and no socket has been closed.
WakeDropped(c) ==
    /\ stopPc[c] \notin {"idle", "send"}
    /\ dg[WakeId(c)].by = 0
    /\ \A f \in Fds :
          /\ sock[f].state # "closed"
          /\ \A i \in 1..Len(queue[f]) : queue[f][i] # WakeId(c)

\* C29: when stop() has set the flag and sent its byte before a worker has
\* bound its socket, the worker reaches the stop barrier without a further
\* datagram: it is not left where it can take no step of its own.
C29_EarlyStopIsObserved ==
    \A c \in StopCallers, w \in Live :
        (WakeDropped(c) /\ ~Arrived(w)) =>
            \/ pc[w] \in {"none", "start_blocked"}
            \/ ENABLED Worker(w)

\* The datagrams worker w has handed to its parsers, and their bytes.
Handled(w) == {d \in DgIds : dg[d].by = w /\ dg[d].handed > 0}

RECURSIVE HandledBytes(_, _)
HandledBytes(w, d) ==
    IF d = 0 THEN 0
    ELSE HandledBytes(w, d - 1) + (IF d \in Handled(w) THEN MsgLen(d) ELSE 0)

\* C31: in a batch that has been parsed the datagrams handed to parse_next
\* are the first ones of the batch, each handed over once and in the order
\* of the batch; a datagram was left out only behind one whose parsing
\* raised a StreamError or a DatabaseError, and the parser of the batch has
\* been closed.
C31_BatchParsedInOrder ==
    \A e \in DgIds :
        (BatchOver(e) /\ \E f \in DgIds : SameBatch(f, e) /\ dg[f].handed > 0)
        =>
        /\ dg[e].handed <= 1
        /\ dg[e].handed = 1 =>
              /\ dg[e].order = dg[e].pos
              /\ dg[e].parser \in closed[dg[e].by]
              /\ \A d \in DgIds :
                    (SameBatch(d, e) /\ dg[d].pos < dg[e].pos) =>
                        /\ dg[d].handed = 1
                        /\ dg[d].parser = dg[e].parser
                        /\ dg[d].result = "ok"
        /\ dg[e].handed = 0 =>
              \E d \in DgIds :
                  /\ SameBatch(d, e)
                  /\ dg[d].pos < dg[e].pos
                  /\ dg[d].handed = 1
                  /\ dg[d].result \in {"StreamError", "DatabaseError"}

C31_Witness ==
    \E d, e \in ClientIds :
        /\ SameBatch(d, e)
        /\ BatchOver(d)
        /\ dg[d].pos = 1
        /\ dg[e].pos = 2
        /\ dg[d].handed = 1
        /\ dg[d].order = 1
        /\ dg[d].result = "StreamError"
        /\ dg[e].handed = 0
        /\ dg[d].parser \in closed[dg[d].by]

\* C30: the counters of a worker accumulate over its lifetime: between two
\* batches pps is the number of datagrams and bps the number of bytes it
\* has processed so far.
C30_CountersAccumulate ==
    \A w \in Live :
        pc[w] # "check_stop" =>
            /\ iobuf[w].pps = Cardinality(Handled(w))
            /\ iobuf[w].bps = HandledBytes(w, MaxDatagrams + MaxStopCalls)

=============================================================================
